---- MODULE Spec2Model ----
(***************************************************************************)
(* JustSay local ASR HTTP server (src/python/whisper_server.py).           *)
(*                                                                         *)
(* The model covers the process-wide model slot (_model, _model_info,      *)
(* _model_lock), get_model, the body decoders and the request resolver of  *)
(* /transcribe, its temporary audio file, the two engine adapters and the  *)
(* HTTP handlers.  Each request runs on its own thread                     *)
(* (ThreadedHTTPServer); a thread's position is thr[t].pc.                 *)
(*                                                                         *)
(* Python values: None is the string "None", a key that is absent from a   *)
(* dict is "Missing", _model = None is the handle NoModel (id 0).          *)
(***************************************************************************)
EXTENDS Naturals, FiniteSets, Sequences, TLC

VARIABLES
    _model,           \* the resident model handle, NoModel when None
    _model_info,      \* the six key fields recorded with the handle
    _model_lock,      \* 0 when free, else the thread inside "with _model_lock"
    _runtime_policy,  \* set by main() before serving
    thr,              \* per request thread: position, locals, response
    last_load,        \* history: key of the last load that ran in the lock
    tmp_files,        \* names of the temporary audio files that exist
    environ,          \* os.environ: HF_HOME and MODELSCOPE_CACHE
    cli               \* a run of the command-line service whisper_service.py

vars ==
    <<_model, _model_info, _model_lock, _runtime_policy, thr, last_load, tmp_files,
      environ, cli>>

----------------------------------------------------------------------------
(* Bounds *)

NThreads == 2        \* request threads alive at once
MaxSupplied == 2     \* parameters one client request supplies

None == "None"
Missing == "Missing"

DEFAULT_SENSEVOICE_MODEL_ID == "FunAudioLLM/SenseVoiceSmall"

AllThreads == 1..NThreads
SeqThreads == {1}

\* names tempfile.NamedTemporaryFile can hand out
TempNames == 1..NThreads

NullInfo ==
    [engine |-> None, model_type |-> None, sensevoice_model_id |-> None,
     device |-> None, compute_type |-> None, download_root |-> None]

NoModel == [id |-> 0, key |-> NullInfo, built |-> None]

----------------------------------------------------------------------------
(* Python helpers *)

\* bool(v) for the str | None values of this program
Truthy(v) == v # None /\ v # ""

\* os.environ of a process started without a cache root
NoEnviron == [HF_HOME |-> None, MODELSCOPE_CACHE |-> None]

\* os.environ after ensure_download_env(download_root)
ensure_download_env(env, download_root) ==
    IF ~Truthy(download_root)
    THEN env
    ELSE [HF_HOME |-> download_root, MODELSCOPE_CACHE |-> download_root]

\* a or b
Or(a, b) == IF Truthy(a) THEN a ELSE b

\* params.get(name, [default])[0], and data.get(name, default)
Get(v, default) == IF v = Missing THEN default ELSE v

\* str.startswith("cuda") on the values resolve_sensevoice_device returns
StartsWithCuda(d) == d \in {"cuda", "cuda:0"}

resolve_sensevoice_device(device, cuda_available) ==
    IF device # "cuda" THEN "cpu"
    ELSE IF cuda_available THEN "cuda:0"
    ELSE "cpu"

\* variant: the requested device goes into the key as it is
SenseVoiceKeyDeviceAsRequested(device, cuda_available) == device

\* what the resolution learns from torch.cuda.is_available(): the probe runs
\* only for the SenseVoice engine asked for "cuda"; an exception of the probe
\* counts as unavailable
Probed(engine, device, cuda_available) ==
    IF engine = "sensevoice" /\ device = "cuda"
    THEN IF cuda_available THEN "available" ELSE "unavailable"
    ELSE "none"

\* device = "cuda" if resolved_sensevoice_device.startswith("cuda") else "cpu"
SenseVoiceKeyDevice(device, cuda_available) ==
    IF StartsWithCuda(resolve_sensevoice_device(device, cuda_available))
    THEN "cuda" ELSE "cpu"

\* model_type if engine == "faster-whisper" else sensevoice_model_id
ModelName(engine, model_type, sensevoice_model_id) ==
    IF engine = "faster-whisper" THEN model_type ELSE sensevoice_model_id

----------------------------------------------------------------------------
(* Runtime policy, as main() leaves it *)

DefaultPolicy ==
    [engine |-> "faster-whisper", lock_model |-> FALSE,
     lock_device_compute |-> FALSE, lock_language |-> FALSE,
     default_model_type |-> "tiny", default_language |-> None,
     sensevoice_model_id |-> DEFAULT_SENSEVOICE_MODEL_ID,
     device |-> "cpu", compute_type |-> "int8"]

\* the command lines explored by the sequential specification
SeqPolicies ==
    { [DefaultPolicy EXCEPT !.lock_model = lm, !.lock_device_compute = ldc,
                            !.lock_language = ll, !.default_language = dl] :
        lm \in BOOLEAN, ldc \in BOOLEAN, ll \in BOOLEAN, dl \in {None, "en"} }

ConcPolicies == {DefaultPolicy}

\* the command lines explored by the start-up specification; an option that
\* is not given is None in args
CommandLines ==
    [engine : {"faster-whisper", "sensevoice"},
     preload_model : {None, "base"},
     device : {"cpu", "cuda"}]

\* main lines 708-717
PolicyOf(args) ==
    [DefaultPolicy EXCEPT !.engine = args.engine,
        !.default_model_type = Or(args.preload_model, "tiny"),
        !.device = args.device]

\* variant: the model is loaded at start-up whatever the command line says
ShouldPreloadAlways(engine, preload_model) == TRUE

\* should_preload = args.engine == "sensevoice" or bool(args.preload_model)
ShouldPreload(engine, preload_model) ==
    engine = "sensevoice" \/ Truthy(preload_model)

\* the arguments of main's get_model call, lines 730-740
PreloadKey(policy, cuda_available) ==
    [engine |-> policy.engine,
     model_type |-> policy.default_model_type,
     sensevoice_model_id |-> policy.sensevoice_model_id,
     device |-> IF policy.engine = "sensevoice"
                THEN SenseVoiceKeyDevice(policy.device, cuda_available)
                ELSE policy.device,
     compute_type |-> policy.compute_type,
     download_root |-> None]

----------------------------------------------------------------------------
(* Client requests *)

ParamNames ==
    {"engine", "model", "sensevoice_model_id", "device", "compute_type",
     "language", "download_root"}

Supplied(r) == {f \in ParamNames : r[f] # Missing}

\* enc is the declared content type: the three classes handle_transcribe
\* accepts, or a type it does not know; body says how well the body fits it;
\* language_again is a second occurrence of the language field
SupportedTypes == {"raw", "json", "multipart"}
UnsupportedTypes == {"text/plain", "application/xml"}
Bodies == {"ok", "malformed", "bad_base64", "no_audio"}

\* directories a client names as download_root
CacheRoots == {"/cache/a", "/cache/b"}

AllRequests ==
    [enc : SupportedTypes \cup UnsupportedTypes,
     body : Bodies,
     engine : {Missing, "faster-whisper", "sensevoice"},
     model : {Missing, "base"},
     sensevoice_model_id : {Missing, "iic/SenseVoiceSmall"},
     device : {Missing, "cuda"},
     compute_type : {Missing, "float16"},
     language : {Missing, "en", "fr", "auto", ""},
     language_again : {Missing, "en", "fr"},
     download_root : {Missing} \cup CacheRoots]

\* a body that does not decode carries no parameter; invalid base64 is a
\* defect of JSON bodies, a raw body is audio whatever it holds
Shaped(r) ==
    /\ r.body # "ok" => (r.enc \in {"json", "multipart"} /\ Supplied(r) = {})
    /\ r.body = "bad_base64" => r.enc = "json"
    /\ r.enc \in UnsupportedTypes => Supplied(r) = {}
    /\ r.language_again # Missing =>
            /\ r.enc \in {"raw", "multipart"} /\ r.body = "ok"
            /\ Supplied(r) = {"language"}
            /\ r.language \in {"en", "fr"} /\ r.language_again # r.language

\* POST /transcribe requests of the sequential specification
SeqRequests ==
    {r \in AllRequests :
        /\ Shaped(r) /\ Cardinality(Supplied(r)) <= MaxSupplied
        /\ r.download_root = Missing}

\* POST /transcribe requests of the concurrent specification
ConcRequests ==
    {r \in AllRequests :
        /\ r.enc = "raw" /\ r.body = "ok" /\ r.language_again = Missing
        /\ Supplied(r) \subseteq {"engine", "model"}
        /\ r.engine = "sensevoice"}

\* POST /model/load bodies (JSON); language is not read by handle_load_model
LoadBodies(R) == {r \in R : r.enc = "json" /\ r.body = "ok" /\ r.language = Missing}
ConcLoadBodies ==
    {r \in AllRequests : /\ r.enc = "json" /\ r.body = "ok" /\ Supplied(r) = {}
                         /\ r.language_again = Missing}

----------------------------------------------------------------------------
(* Body decoding: the params dict handed to transcribe_audio *)

\* the values a request carries under one name, in the order of the body
Occurrences(r, f) ==
    (IF r[f] = Missing THEN <<>> ELSE <<r[f]>>)
        \o (IF f = "language" /\ r.language_again # Missing
            THEN <<r.language_again>> ELSE <<>>)

NotBlank(v) == v # ""

\* parse_qs(urlparse(self.path).query): the list of the values that are not
\* blank; params.get(name, [default])[0] then takes the first
ParamsRaw(r) ==
    [f \in ParamNames |->
        LET values == SelectSeq(Occurrences(r, f), NotBlank)
        IN  IF values = <<>> THEN Missing ELSE Head(values)]

\* handle_multipart_transcribe: params[name] = [content.decode("utf-8")] for
\* every part in turn, so the last part of a name stays
ParamsMultipart(r) ==
    [f \in ParamNames |->
        LET values == Occurrences(r, f)
        IN  IF values = <<>> THEN Missing ELSE values[Len(values)]]

\* transcribe_from_json: every key is present, most default to the policy
ParamsJson(r, policy) ==
    [engine |-> Get(r.engine, policy.engine),
     model |-> Get(r.model, policy.default_model_type),
     sensevoice_model_id |-> Get(r.sensevoice_model_id, policy.sensevoice_model_id),
     device |-> Get(r.device, policy.device),
     compute_type |-> Get(r.compute_type, policy.compute_type),
     language |-> Get(r.language, None),
     download_root |-> Get(r.download_root, None)]

\* handle_transcribe lines 403-417 with the two body decoders: "ok" when
\* transcribe_audio is reached, "raise" when json.loads or base64.b64decode
\* raises, "no_audio" when the decoder finds no audio and returns a failure
\* body, "unsupported" for a content type of no known class
Decode(r) ==
    CASE r.enc = "multipart" -> IF r.body = "ok" THEN "ok" ELSE "no_audio"
      [] r.enc = "json" ->
            CASE r.body = "ok" -> "ok"
              [] r.body = "no_audio" -> "no_audio"
              [] OTHER -> "raise"
      [] r.enc = "raw" -> "ok"
      [] OTHER -> "unsupported"

Params(r, policy) ==
    CASE r.enc = "raw" -> ParamsRaw(r)
      [] r.enc = "multipart" -> ParamsMultipart(r)
      [] r.enc = "json" -> ParamsJson(r, policy)

----------------------------------------------------------------------------
(* Request resolver: transcribe_audio lines 424-470 *)

\* if _runtime_policy["lock_model"]: ... = default_... else: ... = requested_...
ResolveModelField(lock_model, default, requested) ==
    IF lock_model THEN default ELSE requested

\* variant: the language lock is not consulted
ResolveLanguageUnlocked(lock_language, default_language, requested_language) ==
    requested_language

\* if _runtime_policy["lock_language"]: language = default_language
ResolveLanguage(lock_language, default_language, requested_language) ==
    IF lock_language THEN default_language ELSE requested_language

\* variant: the device lock is not consulted
ResolveDeviceFieldUnlocked(lock_device_compute, policy_value, requested) ==
    requested

\* if _runtime_policy["lock_device_compute"]: ... = _runtime_policy[...]
ResolveDeviceField(lock_device_compute, policy_value, requested) ==
    IF lock_device_compute THEN policy_value ELSE requested

Resolve(policy, info, params, cuda_available) ==
    LET default_engine == Or(info.engine, Or(policy.engine, "faster-whisper"))
        default_model_type ==
            Or(info.model_type, Or(policy.default_model_type, "tiny"))
        default_sensevoice_model_id ==
            Or(info.sensevoice_model_id, policy.sensevoice_model_id)
        default_device == Or(info.device, Or(policy.device, "cpu"))
        default_compute_type ==
            Or(info.compute_type, Or(policy.compute_type, "int8"))
        default_language == policy.default_language
        requested_engine == Get(params.engine, default_engine)
        requested_model_type == Get(params.model, default_model_type)
        requested_sensevoice_model_id ==
            Get(params.sensevoice_model_id, default_sensevoice_model_id)
        requested_device == Get(params.device, default_device)
        requested_compute_type == Get(params.compute_type, default_compute_type)
        requested_language == Get(params.language, default_language)
        download_root == Get(params.download_root, None)
        engine == ResolveModelField(policy.lock_model, default_engine, requested_engine)
        model_type ==
            ResolveModelField(policy.lock_model, default_model_type, requested_model_type)
        sensevoice_model_id ==
            ResolveModelField(policy.lock_model, default_sensevoice_model_id,
                              requested_sensevoice_model_id)
        language ==
            ResolveLanguage(policy.lock_language, default_language, requested_language)
        locked_device ==
            ResolveDeviceField(policy.lock_device_compute, policy.device, requested_device)
        compute_type ==
            ResolveDeviceField(policy.lock_device_compute, policy.compute_type,
                               requested_compute_type)
        device ==
            IF engine = "sensevoice"
            THEN SenseVoiceKeyDevice(locked_device, cuda_available)
            ELSE locked_device
    IN  [key |-> [engine |-> engine, model_type |-> model_type,
                  sensevoice_model_id |-> sensevoice_model_id, device |-> device,
                  compute_type |-> compute_type, download_root |-> download_root],
         language |-> language,
         requested_device |-> locked_device,
         probe |-> Probed(engine, locked_device, cuda_available)]

\* handle_load_model lines 593-606: the body against the policy, no lock is read
ResolveLoad(policy, data, cuda_available) ==
    LET engine == Get(data.engine, policy.engine)
        device == Get(data.device, policy.device)
    IN  [engine |-> engine,
         model_type |-> Get(data.model, policy.default_model_type),
         sensevoice_model_id |->
             Get(data.sensevoice_model_id, policy.sensevoice_model_id),
         device |-> IF engine = "sensevoice"
                    THEN SenseVoiceKeyDevice(device, cuda_available)
                    ELSE device,
         compute_type |-> Get(data.compute_type, policy.compute_type),
         download_root |-> Get(data.download_root, None)]

----------------------------------------------------------------------------
(* Model cache: get_model *)

\* variant: the model name is not compared
NeedReloadNoModelType(m, info, k) ==
    \/ m = NoModel
    \/ info.engine # k.engine
    \/ info.sensevoice_model_id # k.sensevoice_model_id
    \/ info.device # k.device
    \/ info.compute_type # k.compute_type
    \/ info.download_root # k.download_root

\* need_reload, lines 153-161
NeedReload(m, info, k) ==
    \/ m = NoModel
    \/ info.engine # k.engine
    \/ info.model_type # k.model_type
    \/ info.sensevoice_model_id # k.sensevoice_model_id
    \/ info.device # k.device
    \/ info.compute_type # k.compute_type
    \/ info.download_root # k.download_root

\* variant: the update leaves model_type as it was
UpdatedInfoNoModelType(info, k) ==
    [info EXCEPT !.engine = k.engine,
                 !.sensevoice_model_id = k.sensevoice_model_id,
                 !.device = k.device, !.compute_type = k.compute_type,
                 !.download_root = k.download_root]

\* _model_info.update({...}), lines 179-188
UpdatedInfo(info, k) ==
    [info EXCEPT !.engine = k.engine, !.model_type = k.model_type,
                 !.sensevoice_model_id = k.sensevoice_model_id,
                 !.device = k.device, !.compute_type = k.compute_type,
                 !.download_root = k.download_root]

\* identity of the object a backend constructor returns: one that no live
\* reference (the slot, a thread's local "model") denotes
IdsInUse == {_model.id} \cup {thr[u].ret.id : u \in AllThreads}
FreshId == CHOOSE i \in 1..(NThreads + 1) : i \notin IdsInUse

\* the device the backend constructor is given: load_sensevoice_model probes
\* again (resolved_device = resolve_sensevoice_device(device)),
\* load_faster_whisper_model passes the device of the key on as it is
BuiltDevice(k, cuda_available) ==
    IF k.engine = "sensevoice"
    THEN resolve_sensevoice_device(k.device, cuda_available)
    ELSE k.device

\* a backend constructs a model only on a device that is there
DeviceUsable(d, cuda_available) == ~StartsWithCuda(d) \/ cuda_available

\* load_sensevoice_model / load_faster_whisper_model returning: the new handle,
\* remembering the arguments get_model was called with and the device the
\* backend constructed the model on
LoadedHandle(id, k, built) == [id |-> id, key |-> k, built |-> built]

----------------------------------------------------------------------------
(* Engine adapters *)

DetectedLanguages == {"zh"}

\* variant: only "if language:" guards the option
FasterWhisperLanguageOptionAnyHint(language) ==
    IF Truthy(language) THEN language ELSE Missing

\* transcribe_with_faster_whisper: options["language"], Missing when not set
FasterWhisperLanguageOption(language) ==
    IF Truthy(language) /\ language # "auto" THEN language ELSE Missing

\* transcribe_with_sensevoice: final_language, always passed to model.generate
SenseVoiceFinalLanguage(language) ==
    IF Truthy(language) /\ language # "auto" THEN language ELSE "auto"

\* the explicit language argument of the backend call
BackendLanguage(engine, language) ==
    IF engine = "sensevoice" THEN SenseVoiceFinalLanguage(language)
    ELSE FasterWhisperLanguageOption(language)

\* payload["language"]: info.language, or detected_language or final_language
PayloadLanguage(engine, language, detected) ==
    IF engine = "sensevoice" THEN Or(detected, SenseVoiceFinalLanguage(language))
    ELSE detected

\* what the backend may report as the language
BackendReports(engine) ==
    IF engine = "sensevoice" THEN DetectedLanguages \cup {None}
    ELSE DetectedLanguages

----------------------------------------------------------------------------
(* Responses *)

BaseResp ==
    [shape |-> "none", status |-> 0, success |-> FALSE, error |-> Missing,
     error_arg |-> Missing,
     language |-> Missing, engine |-> Missing, model |-> Missing,
     device |-> Missing, compute_type |-> Missing,
     loaded |-> FALSE, info |-> NullInfo, resident_key |-> NullInfo]

\* transcribe_audio lines 493-504
SuccessResponse(k, payload_language) ==
    [BaseResp EXCEPT !.shape = "transcribe", !.status = 200, !.success = TRUE,
        !.language = payload_language, !.engine = k.engine,
        !.model = ModelName(k.engine, k.model_type, k.sensevoice_model_id),
        !.device = k.device, !.compute_type = k.compute_type]

\* variant: the failure body carries no language
FailureResponseNoLanguage(k, language, error) ==
    [BaseResp EXCEPT !.shape = "transcribe", !.status = 200, !.success = FALSE,
        !.error = error, !.engine = k.engine,
        !.model = ModelName(k.engine, k.model_type, k.sensevoice_model_id),
        !.device = k.device, !.compute_type = k.compute_type]

\* transcribe_audio lines 505-523
FailureResponse(k, language, error) ==
    [BaseResp EXCEPT !.shape = "transcribe", !.status = 200, !.success = FALSE,
        !.error = error, !.language = language, !.engine = k.engine,
        !.model = ModelName(k.engine, k.model_type, k.sensevoice_model_id),
        !.device = k.device, !.compute_type = k.compute_type]

\* handle_load_model lines 617-624
LoadOkResponse(k) ==
    [BaseResp EXCEPT !.shape = "load", !.status = 200, !.success = TRUE,
        !.engine = k.engine,
        !.model = ModelName(k.engine, k.model_type, k.sensevoice_model_id)]

\* variant: the failure of a load request is sent with the default status
LoadErrorResponseDefaultStatus(error) ==
    [BaseResp EXCEPT !.shape = "load", !.status = 200, !.success = FALSE,
        !.error = error]

\* handle_load_model lines 625-626
LoadErrorResponse(error) ==
    [BaseResp EXCEPT !.shape = "load", !.status = 500, !.success = FALSE,
        !.error = error]

\* variant: the error text does not name the content type
UnsupportedResponseUnnamed(content_type) ==
    [BaseResp EXCEPT !.shape = "unsupported", !.status = 400,
        !.error = "Unsupported content type"]

\* handle_transcribe line 414: {"error": f"Unsupported content type: {...}"}
UnsupportedResponse(content_type) ==
    [BaseResp EXCEPT !.shape = "unsupported", !.status = 400,
        !.error = "Unsupported content type", !.error_arg = content_type]

\* handle_transcribe lines 418-419: an exception of the decoder
ExceptionResponse(error) ==
    [BaseResp EXCEPT !.shape = "exception", !.status = 500, !.success = FALSE,
        !.error = error]

\* transcribe_from_json line 535, handle_multipart_transcribe line 583: the
\* failure body is sent by line 417 with the default status
NoAudioResponse(r) ==
    [BaseResp EXCEPT !.shape = "no_audio", !.status = 200, !.success = FALSE,
        !.error = IF r.enc = "json" THEN "Missing audio field"
                  ELSE "No audio file in request"]

\* main lines 741-742: a pre-load that fails is only printed; no response
PreloadOutcome(error) == [BaseResp EXCEPT !.shape = "preload", !.error = error]

\* handle_unload_model line 642
UnloadResponse ==
    [BaseResp EXCEPT !.shape = "unload", !.status = 200, !.success = TRUE]

\* do_GET /model/info; resident_key is history: the key the handle that was
\* read had been loaded with
InfoResponse ==
    [BaseResp EXCEPT !.shape = "info", !.status = 200,
        !.loaded = (_model # NoModel), !.info = _model_info,
        !.resident_key = _model.key]

\* variant: model_loaded does not look at the handle
HealthResponseAlwaysLoaded ==
    [BaseResp EXCEPT !.shape = "health", !.status = 200,
        !.loaded = TRUE, !.resident_key = _model.key]

\* do_GET /gpu: detect_gpu() reads no state of the server
GpuResponse == [BaseResp EXCEPT !.shape = "gpu", !.status = 200]

\* do_GET /health
HealthResponse ==
    [BaseResp EXCEPT !.shape = "health", !.status = 200,
        !.loaded = (_model # NoModel), !.resident_key = _model.key]

----------------------------------------------------------------------------
(* Request threads *)

NoRequest ==
    [enc |-> "none", body |-> "ok", engine |-> Missing, model |-> Missing,
     sensevoice_model_id |-> Missing, device |-> Missing,
     compute_type |-> Missing, language |-> Missing, language_again |-> Missing,
     download_root |-> Missing]

IdleThread ==
    [pc |-> "idle", kind |-> "none", req |-> NoRequest,
     args |-> NullInfo,            \* the arguments of get_model
     language |-> None,            \* the resolved language
     requested_device |-> None,    \* the device before the SenseVoice fallback
     probe |-> "none",             \* history: the answer of the CUDA probe
     cause |-> "none",             \* history: why the load raised
     defaults |-> NullInfo,        \* the fields of _model_info read one by one
     next |-> 0,                   \* the next of them to read, 0 when none
     seen |-> {},                  \* history: the values _model_info had
                                   \* while they were read
     fetch_env |-> NoEnviron,      \* history: os.environ as the backend
                                   \* fetched the model
     ret |-> NoModel,              \* the local "model" get_model returned
     loaded |-> FALSE,             \* this call ran a backend load
     had_model |-> FALSE,          \* a model was resident when the call began
     pre |-> [model |-> NoModel, info |-> NullInfo],  \* slot on entering the lock,
                                   \* kept while the load runs
     temp_path |-> 0,              \* name of the request's temporary file
     adapter_called |-> FALSE,
     adapter_language |-> None,    \* language handed to transcribe_with_*
     backend_language |-> Missing, \* explicit language of the backend call
     resp |-> BaseResp]

Slot == <<_model, _model_info, _model_lock, _runtime_policy, last_load, cli>>
Others ==
    <<_model, _model_info, _model_lock, _runtime_policy, last_load, tmp_files,
      environ, cli>>

\* tempfile.NamedTemporaryFile(delete=False): a name no existing file has
FreshTempName ==
    CHOOSE n \in TempNames :
        n \notin tmp_files /\ \A m \in TempNames : m < n => m \in tmp_files

\* variant: the file is left behind
NotUnlinked(files, path) == files

\* finally: os.unlink(temp_path)
Unlinked(files, path) == files \ {path}

\* the five defaults of transcribe_audio, in the order they are read
DefaultFields ==
    <<"engine", "model_type", "sensevoice_model_id", "device", "compute_type">>

\* history: every thread that is reading the defaults when _model_info is
\* written notes the value written
Observed(threads, info) ==
    [u \in AllThreads |->
        IF threads[u].pc = "defaults"
        THEN [threads[u] EXCEPT !.seen = @ \cup {info}]
        ELSE threads[u]]

\* the locals of transcribe_audio at the call of get_model, the defaults
\* having been read as info
Resolved(r, info, cuda_available) ==
    LET res == Resolve(_runtime_policy, info, Params(r, _runtime_policy),
                       cuda_available)
    IN  [IdleThread EXCEPT !.pc = "get_model", !.kind = "transcribe",
            !.req = r, !.args = res.key, !.language = res.language,
            !.requested_device = res.requested_device,
            !.probe = res.probe,
            !.temp_path = FreshTempName]

\* POST /transcribe up to the call of get_model: decode the body, resolve,
\* write the audio to a temporary file; a body that does not decode and a
\* content type that is not known are answered at once.  The five defaults
\* are read from _model_info in one step.
HandleTranscribe(t, r) ==
    /\ thr[t].pc = "idle"
    /\ IF Decode(r) = "ok"
       THEN /\ \E cuda_available \in BOOLEAN :
                thr' = [thr EXCEPT ![t] = Resolved(r, _model_info, cuda_available)]
            /\ tmp_files' = tmp_files \cup {FreshTempName}
            /\ environ' = ensure_download_env(environ,
                    Get(Params(r, _runtime_policy).download_root, None))
       ELSE /\ thr' = [thr EXCEPT ![t] =
                    [IdleThread EXCEPT !.pc = "done", !.kind = "transcribe", !.req = r,
                        !.resp = CASE Decode(r) = "unsupported" ->
                                        UnsupportedResponse(r.enc)
                                   [] Decode(r) = "raise" ->
                                        ExceptionResponse("DecodeError")
                                   [] OTHER -> NoAudioResponse(r)]]
            /\ UNCHANGED <<tmp_files, environ>>
    /\ UNCHANGED Slot

\* POST /model/load up to the call of get_model
HandleLoadModel(t, data) ==
    /\ thr[t].pc = "idle"
    /\ \E cuda_available \in BOOLEAN :
        thr' = [thr EXCEPT ![t] =
            [IdleThread EXCEPT !.pc = "get_model", !.kind = "load",
                !.req = data,
                !.args = ResolveLoad(_runtime_policy, data, cuda_available),
                !.requested_device = Get(data.device, _runtime_policy.device),
                !.probe = Probed(Get(data.engine, _runtime_policy.engine),
                                 Get(data.device, _runtime_policy.device),
                                 cuda_available)]]
    /\ UNCHANGED Others

\* POST /transcribe with the five reads of _model_info taken one at a time,
\* as lines 424-428 take them: the first read
BeginTranscribe(t, r) ==
    /\ thr[t].pc = "idle"
    /\ Decode(r) = "ok"
    /\ thr' = [thr EXCEPT ![t] =
            [IdleThread EXCEPT !.pc = "defaults", !.kind = "transcribe", !.req = r,
                !.defaults = [NullInfo EXCEPT
                    ![DefaultFields[1]] = _model_info[DefaultFields[1]]],
                !.next = 2,
                !.seen = {_model_info}]]
    /\ UNCHANGED Others

\* the later reads; after the last one the request is resolved from what was
\* read and the audio written to the temporary file
ReadDefault(t) ==
    /\ thr[t].pc = "defaults"
    /\ LET f == DefaultFields[thr[t].next]
           read == [thr[t].defaults EXCEPT ![f] = _model_info[f]]
       IN  IF thr[t].next < Len(DefaultFields)
           THEN /\ thr' = [thr EXCEPT ![t].defaults = read, ![t].next = @ + 1]
                /\ UNCHANGED <<tmp_files, environ>>
           ELSE /\ \E cuda_available \in BOOLEAN :
                    thr' = [thr EXCEPT ![t] =
                        [Resolved(thr[t].req, read, cuda_available) EXCEPT
                            !.defaults = read, !.seen = thr[t].seen]]
                /\ tmp_files' = tmp_files \cup {FreshTempName}
                /\ environ' = ensure_download_env(environ,
                        Get(Params(thr[t].req, _runtime_policy).download_root, None))
    /\ UNCHANGED Slot

\* variant: the critical section is entered whoever holds the lock
CanAcquireAlways(lock) == TRUE

\* with _model_lock: a thread enters only while no thread is inside
CanAcquire(lock) == lock = 0

\* variant: the lock stays with the caller after get_model returns
LockKeptByCaller(t) == t

\* the end of a with _model_lock block: the lock is free
ReleasedLock(t) == 0

\* os.environ once the loader of k's engine has been entered: the SenseVoice
\* loader exports the cache root before it builds the model
LoaderEnviron(env, k) ==
    IF k.engine = "sensevoice" THEN ensure_download_env(env, k.download_root) ELSE env

\* get_model: enter the lock, compute need_reload; on a miss enter the
\* loader; a hit returns _model and leaves the lock at once
GetModelEnter(t) ==
    /\ thr[t].pc = "get_model"
    /\ CanAcquire(_model_lock)
    /\ IF NeedReload(_model, _model_info, thr[t].args)
       THEN /\ _model_lock' = t
            /\ thr' = [thr EXCEPT ![t].pc = "load",
                                  ![t].had_model = (_model # NoModel),
                                  ![t].pre = [model |-> _model, info |-> _model_info]]
            /\ environ' = LoaderEnviron(environ, thr[t].args)
       ELSE /\ _model_lock' = ReleasedLock(t)
            /\ thr' = [thr EXCEPT ![t].pc = "got_model", ![t].ret = _model,
                                  ![t].had_model = (_model # NoModel)]
            /\ UNCHANGED environ
    /\ UNCHANGED <<_model, _model_info, _runtime_policy, last_load, tmp_files, cli>>

\* _model = load_...(...) returns
LoadModelOk(t) ==
    /\ thr[t].pc = "load"
    /\ \E cuda_available \in BOOLEAN :
        LET built == BuiltDevice(thr[t].args, cuda_available)
        IN  /\ DeviceUsable(built, cuda_available)
            /\ _model' = LoadedHandle(FreshId, thr[t].args, built)
    /\ last_load' = thr[t].args
    /\ thr' = [thr EXCEPT ![t].pc = "update", ![t].loaded = TRUE,
                          ![t].fetch_env = environ]
    /\ UNCHANGED <<_model_info, _model_lock, _runtime_policy, tmp_files, environ, cli>>

\* variant: the old handle is dropped before the load is tried
SlotClearedOnRaise(m, info) == [model |-> NoModel, info |-> info]

\* what a raising load leaves in the slot: the assignment never happens
SlotAfterRaise(m, info) == [model |-> m, info |-> info]

\* variant: an exception leaves the with block without releasing the lock
LockHeldAfterRaise(t) == t

\* _model_lock after an exception has left "with _model_lock"
LockAfterRaise(t) == 0

\* load_...(...) raises, because the device is not there or for a reason of
\* the backend (model not found, initialisation): the with block releases
\* the lock, the handler's except clause answers; transcribe_audio's finally
\* removes its file
LoadModelRaise(t) ==
    /\ thr[t].pc = "load"
    /\ _model' = SlotAfterRaise(_model, _model_info).model
    /\ _model_info' = SlotAfterRaise(_model, _model_info).info
    /\ _model_lock' = LockAfterRaise(t)
    /\ \E cuda_available \in BOOLEAN :
        thr' = [thr EXCEPT ![t].pc = "done", ![t].pre = IdleThread.pre,
            ![t].temp_path = 0,
            ![t].cause =
                IF DeviceUsable(BuiltDevice(thr[t].args, cuda_available),
                                cuda_available)
                THEN "backend" ELSE "device",
            ![t].resp = CASE thr[t].kind = "transcribe" ->
                            FailureResponse(thr[t].args, thr[t].language, "LoadError")
                          [] thr[t].kind = "load" -> LoadErrorResponse("LoadError")
                          [] OTHER -> PreloadOutcome("LoadError")]
    /\ tmp_files' = IF thr[t].kind = "transcribe"
                    THEN Unlinked(tmp_files, thr[t].temp_path)
                    ELSE tmp_files
    /\ UNCHANGED <<_runtime_policy, last_load, environ, cli>>

\* _model_info.update(...); return _model; the lock is released
GetModelUpdate(t) ==
    /\ thr[t].pc = "update"
    /\ _model_info' = UpdatedInfo(_model_info, thr[t].args)
    /\ _model_lock' = ReleasedLock(t)
    /\ thr' = Observed([thr EXCEPT ![t].pc = "got_model", ![t].ret = _model,
                                   ![t].pre = IdleThread.pre],
                       UpdatedInfo(_model_info, thr[t].args))
    /\ UNCHANGED <<_model, _runtime_policy, last_load, tmp_files, environ, cli>>

\* transcribe_audio lines 488-528: the adapter call, the response and the
\* finally clause; the locals die when transcribe_audio returns
Transcribe(t) ==
    /\ thr[t].pc = "got_model"
    /\ thr[t].kind = "transcribe"
    /\ LET a == thr[t]
           called == [a EXCEPT !.pc = "done", !.ret = NoModel, !.temp_path = 0,
                         !.adapter_called = TRUE,
                         !.adapter_language = a.language,
                         !.backend_language =
                             BackendLanguage(a.args.engine, a.language)]
       IN  \/ \E d \in BackendReports(a.args.engine) :
                thr' = [thr EXCEPT ![t] = [called EXCEPT !.resp =
                    SuccessResponse(a.args,
                        PayloadLanguage(a.args.engine, a.language, d))]]
           \/ thr' = [thr EXCEPT ![t] = [called EXCEPT !.resp =
                    FailureResponse(a.args, a.language, "TranscribeError")]]
    /\ tmp_files' = Unlinked(tmp_files, thr[t].temp_path)
    /\ UNCHANGED <<Slot, environ>>

\* handle_load_model, and main's pre-load, after get_model returned
LoadRespond(t) ==
    /\ thr[t].pc = "got_model"
    /\ thr[t].kind \in {"load", "preload"}
    /\ thr' = [thr EXCEPT ![t].pc = "done", ![t].ret = NoModel,
                          ![t].resp = IF thr[t].kind = "load"
                                      THEN LoadOkResponse(thr[t].args)
                                      ELSE PreloadOutcome(Missing)]
    /\ UNCHANGED Others

\* POST /model/unload: with _model_lock: _model = None
UnloadEnter(t) ==
    /\ thr[t].pc = "idle"
    /\ CanAcquire(_model_lock)
    /\ _model_lock' = t
    /\ _model' = NoModel
    /\ last_load' = NullInfo
    /\ thr' = [thr EXCEPT ![t] = [IdleThread EXCEPT !.pc = "unload", !.kind = "unload"]]
    /\ UNCHANGED <<_model_info, _runtime_policy, tmp_files, environ, cli>>

\* variant: the unload drops the handle and leaves the key fields
UnloadedInfoKept(info) == info

\* _model_info = {"engine": None, ...}: a new dict, every field None
UnloadedInfo(info) == NullInfo

\* _model_info = {...None}; the lock is released; {"success": True}
UnloadClear(t) ==
    /\ thr[t].pc = "unload"
    /\ _model_info' = UnloadedInfo(_model_info)
    /\ _model_lock' = ReleasedLock(t)
    /\ thr' = Observed([thr EXCEPT ![t].pc = "done", ![t].resp = UnloadResponse],
                       UnloadedInfo(_model_info))
    /\ UNCHANGED <<_model, _runtime_policy, last_load, tmp_files, environ, cli>>

\* GET /model/info, GET /health and GET /gpu: no lock is taken
DoGet(t, path) ==
    /\ thr[t].pc = "idle"
    /\ thr' = [thr EXCEPT ![t] = [IdleThread EXCEPT !.pc = "done", !.kind = path,
            !.resp = CASE path = "info" -> InfoResponse
                       [] path = "health" -> HealthResponse
                       [] OTHER -> GpuResponse]]
    /\ UNCHANGED Others

\* main lines 724-742, on the main thread before the server exists: the
\* optional pre-load; thr[t].req.model holds args.preload_model
Main(t) ==
    /\ thr[t].pc = "main"
    /\ IF ShouldPreload(_runtime_policy.engine, thr[t].req.model)
       THEN \E cuda_available \in BOOLEAN :
                thr' = [thr EXCEPT ![t].pc = "get_model",
                            ![t].args = PreloadKey(_runtime_policy, cuda_available),
                            ![t].requested_device = _runtime_policy.device,
                            ![t].probe = Probed(_runtime_policy.engine,
                                                _runtime_policy.device, cuda_available)]
       ELSE thr' = [thr EXCEPT ![t].pc = "done"]
    /\ UNCHANGED Others

\* the response is written and the request thread ends; for the main thread:
\* the server is created and serve_forever takes requests
Finish(t) ==
    /\ thr[t].pc = "done"
    /\ thr' = [thr EXCEPT ![t] = IdleThread]
    /\ UNCHANGED Others

----------------------------------------------------------------------------
(* The command-line service: one run of main() of whisper_service.py *)

\* the variables of the server process, which a run of the service leaves alone
ServerState ==
    <<_model, _model_info, _model_lock, _runtime_policy, thr, last_load, tmp_files,
      environ>>

FASTER_WHISPER_MODELS == {"tiny", "base", "small", "medium", "large-v3"}

\* command lines: the options main() branches on
ServiceCommandLines ==
    [engine : {"faster-whisper", "sensevoice"},
     model : {"tiny", "huge"},
     audio : {None, "absent.wav", "speech.wav"},
     download_only : BOOLEAN,
     download_root : {None, "/cache/a"},
     detect_gpu : BOOLEAN]

\* the process before main() has parsed anything, and in the server process
NoRun ==
    [pc |-> "none",
     args |-> [engine |-> None, model |-> None, audio |-> None,
               download_only |-> FALSE, download_root |-> None,
               detect_gpu |-> FALSE],
     stdout |-> <<>>,              \* the JSON documents printed to stdout
     stderr |-> {},                \* the progress statuses printed to stderr
     exit_code |-> 0,              \* what main() returned, when pc is "exit"
     monitor |-> "none",           \* the progress thread: none, running, finished
     stop_event |-> FALSE,         \* stop_event.is_set()
     tried |-> FALSE]              \* history: the try block was entered

\* print(json.dumps(...)) appends one document to stdout
GpuResult == [type |-> "gpu", success |-> Missing]
ErrorResult == [type |-> "error", success |-> "false"]
DownloadedResult == [type |-> "downloaded", success |-> "true"]
PayloadResult == [type |-> "payload", success |-> "true"]

\* return code after print(json.dumps(result))
Exited(run, result, code) ==
    [run EXCEPT !.pc = "exit", !.stdout = Append(@, result), !.exit_code = code]

\* the audio files that exist
AudioFiles == {"speech.wav"}

\* main() lines 266-279: the cache environment, --detect-gpu, the audio
\* checks; os.makedirs raising is not caught: traceback, exit code 1
ServiceStart ==
    /\ cli.pc = "start"
    /\ \E makedirs_ok \in BOOLEAN :
        /\ (~makedirs_ok) => Truthy(cli.args.download_root)
        /\ cli' =
            IF ~makedirs_ok
            THEN [cli EXCEPT !.pc = "exit", !.exit_code = 1]
            ELSE IF cli.args.detect_gpu
            THEN Exited(cli, GpuResult, 0)
            ELSE IF ~cli.args.download_only /\ cli.args.audio \notin AudioFiles
            THEN Exited(cli, ErrorResult, 1)
            ELSE [cli EXCEPT !.pc = "try", !.tried = TRUE]
        /\ environ' = IF makedirs_ok
                      THEN ensure_download_env(environ, cli.args.download_root)
                      ELSE environ
    /\ UNCHANGED <<_model, _model_info, _model_lock, _runtime_policy, thr,
                   last_load, tmp_files>>

\* lines 282-294: validate_model_args, then for --download-only the first
\* progress line and, for faster-whisper with a download root, the monitor
\* thread is created and started with its stop_event clear
ServicePrepare ==
    /\ cli.pc = "try"
    /\ cli' =
        IF cli.args.engine = "faster-whisper"
                /\ cli.args.model \notin FASTER_WHISPER_MODELS
        THEN Exited(cli, ErrorResult, 1)
        ELSE IF ~cli.args.download_only
        THEN [cli EXCEPT !.pc = "load"]
        ELSE IF cli.args.engine = "faster-whisper" /\ Truthy(cli.args.download_root)
        THEN [cli EXCEPT !.pc = "load", !.stderr = @ \cup {"starting download"},
                         !.monitor = "running"]
        ELSE IF cli.args.engine = "sensevoice"
        THEN [cli EXCEPT !.pc = "load",
                         !.stderr = @ \cup {"starting download", "preparing"}]
        ELSE [cli EXCEPT !.pc = "load", !.stderr = @ \cup {"starting download"}]
    /\ UNCHANGED ServerState

\* lines 296-304: the backend load returns; stop_event.set() when the
\* monitor was created, and the join with its timeout
ServiceLoadOk ==
    /\ cli.pc = "load"
    /\ cli' = [cli EXCEPT !.pc = "loaded",
                          !.stop_event = (cli.monitor # "none")]
    /\ UNCHANGED ServerState

\* lines 296-299 and 320-328: the backend load raises (ImportError or any
\* other exception); the except clauses print the error and return 1
ServiceLoadRaise ==
    /\ cli.pc = "load"
    /\ cli' = Exited(cli, ErrorResult, 1)
    /\ UNCHANGED ServerState

\* lines 306-328: --download-only reports and returns; otherwise the
\* inference call returns a payload or raises
ServiceFinish ==
    /\ cli.pc = "loaded"
    /\ IF cli.args.download_only
       THEN cli' = Exited([cli EXCEPT !.stderr = @ \cup {"complete"}],
                          DownloadedResult, 0)
       ELSE \E transcribe_ok \in BOOLEAN :
                cli' = IF transcribe_ok
                       THEN Exited(cli, PayloadResult, 0)
                       ELSE Exited(cli, ErrorResult, 1)
    /\ UNCHANGED ServerState

\* monitor_download, one turn of the loop with stop_event clear: a progress
\* line on stderr, or the break when the download is seen complete.  The
\* thread is a daemon: it runs only while the process does.
MonitorPoll ==
    /\ cli.pc # "exit"
    /\ cli.monitor = "running"
    /\ ~cli.stop_event
    /\ \E complete \in BOOLEAN :
        cli' = IF complete
               THEN [cli EXCEPT !.monitor = "finished"]
               ELSE [cli EXCEPT !.stderr = @ \cup {"downloading"}]
    /\ UNCHANGED ServerState

\* monitor_download leaves the loop because stop_event is set
MonitorStop ==
    /\ cli.pc # "exit"
    /\ cli.monitor = "running"
    /\ cli.stop_event
    /\ cli' = [cli EXCEPT !.monitor = "finished"]
    /\ UNCHANGED ServerState

----------------------------------------------------------------------------
(* Specifications *)

InitWith(policies) ==
    /\ _model = NoModel
    /\ _model_info = NullInfo
    /\ _model_lock = 0
    /\ _runtime_policy \in policies
    /\ thr = [t \in AllThreads |-> IdleThread]
    /\ last_load = NullInfo
    /\ tmp_files = {}
    /\ environ = NoEnviron
    /\ cli = NoRun

\* every step but the start of POST /transcribe
Handlers(t, bodies, paths) ==
        \/ \E b \in bodies : HandleLoadModel(t, b)
        \/ GetModelEnter(t)
        \/ LoadModelOk(t)
        \/ LoadModelRaise(t)
        \/ GetModelUpdate(t)
        \/ Transcribe(t)
        \/ LoadRespond(t)
        \/ UnloadEnter(t)
        \/ UnloadClear(t)
        \/ \E path \in paths : DoGet(t, path)
        \/ Finish(t)

NextWith(T, requests, bodies, paths) ==
    \E t \in T :
        \/ \E r \in requests : HandleTranscribe(t, r)
        \/ Handlers(t, bodies, paths)

\* concurrent request threads on a server started without locks
Init == InitWith(ConcPolicies)
Next == NextWith(AllThreads, ConcRequests, ConcLoadBodies, {"info"})
Spec == Init /\ [][Next]_vars

\* the same threads under a scheduler: a backend load returns or raises, an
\* inference call returns or raises, a thread that can run its next
\* statement runs it, and a thread blocked on _model_lock is not passed over
\* for ever when the lock is released again and again.  Requests arrive or
\* do not: nothing is required of an idle thread.
Fairness ==
    \A t \in AllThreads :
        /\ SF_vars(GetModelEnter(t))
        /\ WF_vars(LoadModelOk(t) \/ LoadModelRaise(t))
        /\ WF_vars(GetModelUpdate(t))
        /\ WF_vars(Transcribe(t))
        /\ WF_vars(LoadRespond(t))
        /\ WF_vars(UnloadClear(t))

SpecLive == Init /\ [][Next]_vars /\ Fairness

\* the process from the command line on: main's pre-load, then one request
\* at a time
MainThread(args) ==
    [IdleThread EXCEPT !.pc = "main", !.kind = "preload",
        !.req = [NoRequest EXCEPT !.enc = "argv", !.model = args.preload_model]]

InitStart ==
    /\ _model = NoModel
    /\ _model_info = NullInfo
    /\ _model_lock = 0
    /\ \E args \in CommandLines :
        /\ _runtime_policy = PolicyOf(args)
        /\ thr = [t \in AllThreads |->
                    IF t \in SeqThreads THEN MainThread(args) ELSE IdleThread]
    /\ last_load = NullInfo
    /\ tmp_files = {}
    /\ environ = NoEnviron
    /\ cli = NoRun

NextStart ==
    \/ \E t \in SeqThreads : Main(t)
    \/ NextWith(SeqThreads, ConcRequests, ConcLoadBodies, {"info"})

SpecStart == InitStart /\ [][NextStart]_vars

\* concurrent request threads, the defaults of POST /transcribe read one
\* field at a time
TornRequests ==
    {r \in AllRequests :
        /\ r.enc = "raw" /\ r.body = "ok" /\ r.language_again = Missing
        /\ Supplied(r) = {"engine"}
        /\ r.engine = "sensevoice"}

NextTorn ==
    \E t \in AllThreads :
        \/ \E r \in TornRequests : BeginTranscribe(t, r)
        \/ ReadDefault(t)
        \/ Handlers(t, ConcLoadBodies, {"info"})

SpecTorn == Init /\ [][NextTorn]_vars

\* concurrent request threads whose requests name cache roots
EnvRequests ==
    {r \in AllRequests :
        /\ r.enc = "raw" /\ r.body = "ok" /\ r.language_again = Missing
        /\ Supplied(r) = {"engine", "download_root"}
        /\ r.engine = "sensevoice"}

NextEnv == NextWith(AllThreads, EnvRequests, ConcLoadBodies, {"info"})
SpecEnv == Init /\ [][NextEnv]_vars

\* one run of the command-line service
InitService ==
    /\ _model = NoModel
    /\ _model_info = NullInfo
    /\ _model_lock = 0
    /\ _runtime_policy = DefaultPolicy
    /\ thr = [t \in AllThreads |-> IdleThread]
    /\ last_load = NullInfo
    /\ tmp_files = {}
    /\ environ = NoEnviron
    /\ \E args \in ServiceCommandLines :
            cli = [NoRun EXCEPT !.pc = "start", !.args = args]

NextService ==
    \/ ServiceStart
    \/ ServicePrepare
    \/ ServiceLoadOk
    \/ ServiceLoadRaise
    \/ ServiceFinish
    \/ MonitorPoll
    \/ MonitorStop

SpecService == InitService /\ [][NextService]_vars

\* one request at a time, every lock setting, every request shape
InitSeq == InitWith(SeqPolicies)
NextSeq ==
    NextWith(SeqThreads, SeqRequests, LoadBodies(SeqRequests), {"info", "health", "gpu"})
SpecSeq == InitSeq /\ [][NextSeq]_vars

----------------------------------------------------------------------------
(* Model cache properties (specification Spec) *)

\* C1: a load that raises while a model is resident leaves the handle and
\* every key field as they were when the call entered the lock, the error
\* reaches the caller (a failure response), the lock is free again, and the
\* key the resident handle was loaded with is still a hit.
C1_FailedLoadKeepsSlot ==
    [][\A t \in AllThreads :
        (thr[t].pc = "load" /\ thr'[t].pc = "done") =>
            /\ _model' = thr[t].pre.model
            /\ _model_info' = thr[t].pre.info
            /\ _model_lock' = 0
            /\ ~thr'[t].resp.success
            /\ thr'[t].resp.error = "LoadError"
            /\ (thr[t].pre.model # NoModel =>
                    ~NeedReload(_model', _model_info', thr[t].pre.model.key))
      ]_vars

C1_Witness ==
    \E t \in AllThreads :
        /\ thr[t].pc = "done"
        /\ thr[t].resp.error = "LoadError"
        /\ thr[t].had_model
        /\ _model # NoModel
        /\ _model_info = _model.key

\* the specification's LoadKey: one model identifier per engine
LoadKey(k) ==
    [engine |-> k.engine,
     model |-> ModelName(k.engine, k.model_type, k.sensevoice_model_id),
     device |-> k.device, compute_type |-> k.compute_type,
     download_root |-> k.download_root]

\* C2: an acquire whose LoadKey (engine, model identifier, device, compute
\* precision, cache root) equals the LoadKey of the resident model performs
\* no backend load; two SenseVoice requests that differ only in the unused
\* faster-whisper model name share one load.
C2_OneLoadPerLoadKey ==
    \A t \in AllThreads :
        thr[t].pc = "load" =>
            \/ thr[t].pre.model = NoModel
            \/ LoadKey(thr[t].args) # LoadKey(thr[t].pre.model.key)

\* C3: when get_model(k) returns, the handle it returns is the resident one,
\* was loaded with k, and the slot key is k; a call that finds a handle
\* loaded with k resident returns that handle without a load; a call that
\* loads returns a handle that is neither the one it replaced nor one an
\* earlier call still holds.
C3_ReloadReplacesHandle ==
    [][\A t \in AllThreads :
        /\ (thr[t].pc # "got_model" /\ thr'[t].pc = "got_model") =>
            /\ thr'[t].ret = _model'
            /\ thr'[t].ret # NoModel
            /\ thr'[t].ret.key = thr[t].args
            /\ _model_info' = thr[t].args
        /\ (thr[t].pc = "get_model" /\ thr'[t].pc # "get_model"
                /\ _model # NoModel /\ _model.key = thr[t].args) =>
            /\ thr'[t].pc = "got_model"
            /\ thr'[t].ret = _model
            /\ ~thr'[t].loaded
            /\ _model' = _model
        /\ (thr[t].pc = "update" /\ thr'[t].pc = "got_model") =>
            /\ thr'[t].ret # thr[t].pre.model
            /\ \A u \in AllThreads \ {t} : thr[u].ret.id # thr'[t].ret.id
      ]_vars

C3_Witness ==
    \E t, u \in AllThreads :
        /\ t # u
        /\ thr[t].pc = "got_model" /\ thr[t].loaded /\ thr[t].had_model
        /\ thr[u].pc = "got_model" /\ ~thr[u].loaded
        /\ thr[u].ret = thr[t].ret
        /\ _model = thr[t].ret
        /\ _model_info = thr[t].args

\* C4: whenever no thread is inside the lock and the last change of the slot
\* was a load, the slot key equals, field for field, the key of the load
\* that ran last inside the lock, and the resident handle is that load's.
C4_LastLoadWins ==
    (_model_lock = 0 /\ last_load # NullInfo) =>
        (_model_info = last_load /\ _model.key = last_load)

C4_Witness ==
    \E t, u \in AllThreads :
        /\ t # u
        /\ thr[t].pc = "done" /\ thr[t].loaded /\ thr[t].resp.success
        /\ thr[u].pc = "done" /\ thr[u].loaded /\ thr[u].resp.success
        /\ thr[t].args # thr[u].args
        /\ _model_lock = 0
        /\ _model_info = last_load
        /\ last_load = thr[u].args

\* C5: no GET /model/info response reports loaded = true together with a key
\* other than the key the resident handle was loaded with.
C5_InfoMatchesHandle ==
    \A t \in AllThreads :
        (thr[t].pc = "done" /\ thr[t].kind = "info" /\ thr[t].resp.loaded) =>
            thr[t].resp.info = thr[t].resp.resident_key

----------------------------------------------------------------------------
(* Policy and language properties (specification SpecSeq) *)

\* the model identifier the start-up values name for the policy engine
PolicyModelName ==
    ModelName(_runtime_policy.engine, _runtime_policy.default_model_type,
              _runtime_policy.sensevoice_model_id)

\* C6: with lock_model set, every /transcribe request calls get_model with
\* the start-up engine and model identifier, and echoes them in its response.
C6_LockModelForcesPolicy ==
    \A t \in AllThreads :
        (thr[t].kind = "transcribe" /\ _runtime_policy.lock_model) =>
            /\ thr[t].args.engine = _runtime_policy.engine
            /\ ModelName(thr[t].args.engine, thr[t].args.model_type,
                         thr[t].args.sensevoice_model_id) = PolicyModelName
            /\ (thr[t].pc = "done" =>
                    /\ thr[t].resp.engine = _runtime_policy.engine
                    /\ thr[t].resp.model = PolicyModelName)

\* C7: POST /model/load obeys the locks: with lock_model set the key it loads
\* has the policy engine and model identifier, with lock_device_compute set
\* it has the policy compute type and the policy device (after the
\* SenseVoice device fallback).
C7_LoadObeysLocks ==
    \A t \in AllThreads :
        thr[t].kind = "load" =>
            /\ _runtime_policy.lock_model =>
                /\ thr[t].args.engine = _runtime_policy.engine
                /\ ModelName(thr[t].args.engine, thr[t].args.model_type,
                             thr[t].args.sensevoice_model_id) = PolicyModelName
            /\ _runtime_policy.lock_device_compute =>
                /\ thr[t].args.compute_type = _runtime_policy.compute_type
                /\ thr[t].args.device \in
                      {_runtime_policy.device,
                       SenseVoiceKeyDevice(_runtime_policy.device, FALSE)}

\* C8: with lock_language set, the language a /transcribe request resolves
\* and hands to the engine adapter is the policy default language (None, no
\* hint, when the default is unset), whatever the client sent in whatever
\* body encoding that decodes.
C8_LockLanguageForcesDefault ==
    \A t \in AllThreads :
        (/\ thr[t].kind = "transcribe" /\ Decode(thr[t].req) = "ok"
         /\ _runtime_policy.lock_language) =>
            /\ thr[t].language = _runtime_policy.default_language
            /\ thr[t].adapter_called =>
                   thr[t].adapter_language = _runtime_policy.default_language

C8_Witness ==
    \E t \in AllThreads :
        /\ thr[t].adapter_called
        /\ _runtime_policy.lock_language
        /\ thr[t].req.language = "fr"
        /\ thr[t].req.enc = "multipart"
        /\ thr[t].adapter_language = "en"

\* C9 as claimed: with lock_language set, the language field of every
\* /transcribe response, successful or failed, is the policy default language.
C9_ResponseEchoesPolicyLanguage ==
    \A t \in AllThreads :
        (thr[t].pc = "done" /\ thr[t].kind = "transcribe"
            /\ _runtime_policy.lock_language) =>
            thr[t].resp.language = _runtime_policy.default_language

\* C9 as amended: with lock_language set, a failed /transcribe response
\* built by transcribe_audio carries the policy default language; a
\* successful one carries what the adapter returns: the language the backend
\* reports or, for SenseVoice without a report, the language passed to the
\* backend.
C9_FailureEchoesPolicyLanguage ==
    \A t \in AllThreads :
        (/\ thr[t].pc = "done" /\ thr[t].kind = "transcribe"
         /\ thr[t].resp.shape = "transcribe"
         /\ _runtime_policy.lock_language) =>
            IF thr[t].resp.success
            THEN thr[t].resp.language \in
                    DetectedLanguages \cup
                    {SenseVoiceFinalLanguage(_runtime_policy.default_language)}
            ELSE thr[t].resp.language = _runtime_policy.default_language

C9_Witness ==
    \E t \in AllThreads :
        /\ thr[t].pc = "done" /\ thr[t].kind = "transcribe"
        /\ _runtime_policy.lock_language
        /\ thr[t].req.language = "fr"
        /\ ~thr[t].resp.success
        /\ thr[t].resp.error = "TranscribeError"
        /\ thr[t].resp.language = "en"

\* the resolved language names a language: it is not None, "" or "auto"
HasLanguageHint(language) == Truthy(language) /\ language # "auto"

\* C10 as claimed: for both engines the backend call gets no language
\* argument when the resolved language is "auto", empty or absent, and never
\* gets the string "auto".
C10_AutoNeverReachesBackend ==
    \A t \in AllThreads :
        thr[t].adapter_called =>
            /\ thr[t].backend_language # "auto"
            /\ ~HasLanguageHint(thr[t].language) =>
                   thr[t].backend_language = Missing

\* C10 as amended: the faster-whisper backend call gets no language argument
\* when the resolved language is "auto", empty or absent, and never gets
\* "auto"; the SenseVoice backend call always gets a language argument, the
\* literal "auto" in those cases; any other language is passed through.
C10_AutoIsNoHint ==
    \A t \in AllThreads :
        thr[t].adapter_called =>
            IF HasLanguageHint(thr[t].language)
            THEN thr[t].backend_language = thr[t].language
            ELSE IF thr[t].args.engine = "sensevoice"
            THEN thr[t].backend_language = "auto"
            ELSE thr[t].backend_language = Missing

C10_Witness ==
    \E t \in AllThreads :
        /\ thr[t].adapter_called
        /\ thr[t].args.engine = "faster-whisper"
        /\ thr[t].language = "auto"
        /\ thr[t].backend_language = Missing

----------------------------------------------------------------------------
(* Resolver properties, continued (specification SpecSeq) *)

\* C11: the three locks are independent gates.  With lock_device_compute
\* set, the device (before the SenseVoice fallback) and the compute type of
\* a /transcribe request are the policy's, whatever the client sends, while
\* the engine, the model and the language it sends are still taken when
\* their own locks are clear; with lock_device_compute clear the device and
\* the compute type are the client's, or the default when omitted, whatever
\* lock_model and lock_language are.
C11_LocksAreIndependent ==
    \A t \in SeqThreads :
        LET a == thr[t]
            pol == _runtime_policy
        IN  (a.kind = "transcribe" /\ a.pc = "get_model") =>
                /\ pol.lock_device_compute =>
                        /\ a.requested_device = pol.device
                        /\ a.args.compute_type = pol.compute_type
                /\ (~pol.lock_model /\ a.req.engine # Missing) =>
                        a.args.engine = a.req.engine
                /\ (~pol.lock_model /\ a.req.model # Missing) =>
                        a.args.model_type = a.req.model
                /\ (~pol.lock_language /\ a.req.language \notin {Missing, ""}) =>
                        a.language \in
                            {a.req.language, a.req.language_again} \ {Missing}
                /\ ~pol.lock_device_compute =>
                        /\ a.requested_device =
                               IF a.req.device # Missing THEN a.req.device
                               ELSE IF a.req.enc # "json" /\ Truthy(_model_info.device)
                                    THEN _model_info.device
                                    ELSE pol.device
                        /\ a.args.compute_type =
                               IF a.req.compute_type # Missing THEN a.req.compute_type
                               ELSE IF a.req.enc # "json"
                                        /\ Truthy(_model_info.compute_type)
                                    THEN _model_info.compute_type
                                    ELSE pol.compute_type

\* a request that sends a device and an engine under the device lock alone
C11_Witness ==
    \E t \in SeqThreads :
        /\ thr[t].kind = "transcribe" /\ thr[t].pc = "get_model"
        /\ _runtime_policy.lock_device_compute
        /\ ~_runtime_policy.lock_model /\ ~_runtime_policy.lock_language
        /\ thr[t].req.device = "cuda" /\ thr[t].req.engine = "sensevoice"
        /\ thr[t].requested_device = "cpu" /\ thr[t].args.engine = "sensevoice"

\* C12: for a parameter the client omits and whose lock is clear, the policy
\* default wins over the resident model's key field: the request resolves to
\* the policy's engine, model, device and compute type even when a model
\* with other values is resident.
C12_PolicyDefaultBeatsResidentModel ==
    \A t \in SeqThreads :
        LET a == thr[t]
            pol == _runtime_policy
        IN  (a.kind = "transcribe" /\ a.pc = "get_model") =>
                /\ (~pol.lock_model /\ a.req.engine = Missing) =>
                        a.args.engine = pol.engine
                /\ (~pol.lock_model /\ a.req.model = Missing) =>
                        a.args.model_type = pol.default_model_type
                /\ (~pol.lock_device_compute /\ a.req.device = Missing) =>
                        a.requested_device = pol.device
                /\ (~pol.lock_device_compute /\ a.req.compute_type = Missing) =>
                        a.args.compute_type = pol.compute_type

\* C13: in every server state and under every lock setting, a multipart
\* /transcribe request with the audio and language=en resolves to the same
\* engine, model, SenseVoice model id, device, compute type, cache root and
\* language as the JSON request with the same audio and {"language": "en"}.
C13_MultipartAndJsonResolveAlike ==
    \A t \in SeqThreads :
        LET a == thr[t]
            twin == [a.req EXCEPT !.enc = "json"]
        IN  (/\ a.kind = "transcribe" /\ a.pc = "get_model"
             /\ a.req.enc = "multipart"
             /\ a.req.language = "en" /\ Supplied(a.req) = {"language"}) =>
                \E cuda_available \in BOOLEAN :
                    LET res == Resolve(_runtime_policy, _model_info,
                                       Params(twin, _runtime_policy), cuda_available)
                    IN  /\ res.key = a.args
                        /\ res.language = a.language

----------------------------------------------------------------------------
(* Unload and locking properties (specification Spec) *)

\* C14: POST /model/unload answers success in whatever state it finds the
\* slot; when it leaves the lock the slot has no handle and no key; an
\* unload of an empty slot changes nothing; and a get_model that finds the
\* slot empty runs a load, whatever key it asks for.
C14_UnloadEmptiesSlot ==
    [][\A t \in AllThreads :
        /\ (thr[t].pc = "unload" /\ thr'[t].pc = "done") =>
                /\ _model' = NoModel /\ _model_info' = NullInfo
                /\ _model_lock' = 0
                /\ thr'[t].resp.shape = "unload"
                /\ thr'[t].resp.success /\ thr'[t].resp.status = 200
        /\ (/\ thr[t].kind # "unload" /\ thr'[t].kind = "unload"
             /\ _model = NoModel /\ _model_info = NullInfo) =>
                (_model' = _model /\ _model_info' = _model_info)
        /\ (/\ thr[t].pc = "get_model" /\ thr'[t].pc # "get_model"
             /\ _model = NoModel) =>
                thr'[t].pc = "load"
        /\ (thr[t].pc = "load" /\ thr'[t].pc = "update") =>
                (_model'.id # 0 /\ _model'.key = thr[t].args)
      ]_vars

\* an unload has answered, a second one is inside the lock on the empty slot
C14_Witness ==
    \E t, u \in AllThreads :
        /\ thr[t].pc = "done" /\ thr[t].kind = "unload" /\ thr[t].resp.success
        /\ thr[u].pc = "unload"
        /\ _model = NoModel /\ _model_info = NullInfo

\* the positions inside a with _model_lock block
InLock == {"load", "update", "unload"}

\* C15: the lock is held only for the lookup-or-load, never during
\* inference: a thread that got its handle and is in the backend transcribe
\* call does not hold the lock, the lock is only ever held by a thread inside
\* the lookup-or-load or the unload, and while no thread is there another
\* request can enter get_model and an unload can take the lock at once.
C15_LockFreeDuringInference ==
    /\ \A t \in AllThreads : thr[t].pc = "got_model" => _model_lock # t
    /\ _model_lock # 0 => thr[_model_lock].pc \in InLock
    /\ \A t, u \in AllThreads :
            (/\ thr[t].pc = "got_model" /\ thr[t].kind = "transcribe"
             /\ \A v \in AllThreads : thr[v].pc \notin InLock) =>
                /\ thr[u].pc = "get_model" => ENABLED GetModelEnter(u)
                /\ thr[u].pc = "idle" => ENABLED UnloadEnter(u)

\* two requests with the same key are in the backend call with one handle
C15_Witness ==
    \E t, u \in AllThreads :
        /\ t # u /\ _model_lock = 0
        /\ thr[t].pc = "got_model" /\ thr[t].kind = "transcribe"
        /\ thr[u].pc = "got_model" /\ thr[u].kind = "transcribe"
        /\ thr[t].ret # NoModel /\ thr[t].ret = thr[u].ret

\* C16: at most one thread is inside the lookup-or-load or the unload, so
\* two backend loads never overlap, and nothing changes the slot between the
\* start and the end of a load: while a load runs the slot is as the loading
\* thread found it, and when it has returned only the handle has changed.
C16_OneThreadInLock ==
    /\ Cardinality({t \in AllThreads : thr[t].pc \in InLock}) <= 1
    /\ \A t \in AllThreads :
            /\ thr[t].pc \in InLock => _model_lock = t
            /\ thr[t].pc = "load" =>
                    (_model = thr[t].pre.model /\ _model_info = thr[t].pre.info)
            /\ thr[t].pc = "update" =>
                    (_model.key = thr[t].args /\ _model_info = thr[t].pre.info)

\* a load is running while another request is waiting at the lock
C16_Witness ==
    \E t, u \in AllThreads :
        /\ thr[t].pc = "load" /\ _model_lock = t
        /\ thr[u].pc = "get_model" /\ thr[u].args # thr[t].args

----------------------------------------------------------------------------
(* Temporary files and error answers *)

\* the positions of a /transcribe request between the creation of its
\* temporary file and the finally clause that removes it
InFlight(t) ==
    /\ thr[t].kind = "transcribe"
    /\ thr[t].pc \in {"get_model", "load", "update", "got_model"}

\* C17 (specification Spec): every /transcribe request that created a
\* temporary file has removed it when its handler returns, after a
\* successful transcription, a load failure and a backend failure alike: the
\* files that exist are exactly those of the requests still being served,
\* each of them has its own file, and that file exists until the request
\* itself removes it.
C17_TempFileRemovedOnEveryExit ==
    /\ tmp_files = {thr[t].temp_path : t \in {u \in AllThreads : InFlight(u)}}
    /\ \A t, u \in AllThreads :
            (InFlight(t) /\ InFlight(u) /\ t # u) =>
                thr[t].temp_path # thr[u].temp_path
    /\ \A t \in AllThreads :
            /\ InFlight(t) => thr[t].temp_path \in tmp_files
            /\ ~InFlight(t) => thr[t].temp_path = 0

\* a request whose load failed has answered and its file is gone, while the
\* file of another request being served exists
C17_Witness ==
    \E t, u \in AllThreads :
        /\ thr[t].pc = "done" /\ thr[t].kind = "transcribe"
        /\ thr[t].resp.error = "LoadError"
        /\ InFlight(u)
        /\ tmp_files = {thr[u].temp_path}

\* C18 (specification Spec): a load that raises while /transcribe is served
\* and a backend call that raises are answered with status 200, success
\* false and the error; a load that raises in /model/load is answered with
\* status 500, success false and the error; either way the lock is free,
\* the thread ends and the server takes further requests.
C18_FailuresAreAnswered ==
    [][\A t \in AllThreads :
        /\ (thr[t].pc = "load" /\ thr'[t].pc # "load" /\ thr'[t].pc # "update") =>
                /\ thr'[t].pc = "done"
                /\ ~thr'[t].resp.success /\ thr'[t].resp.error = "LoadError"
                /\ thr'[t].resp.status = IF thr[t].kind = "transcribe" THEN 200 ELSE 500
                /\ thr'[t].resp.shape = thr[t].kind
                /\ _model_lock' = 0
        /\ (/\ thr[t].pc = "got_model" /\ thr[t].kind = "transcribe"
             /\ thr'[t].pc # "got_model") =>
                /\ thr'[t].pc = "done" /\ thr'[t].resp.status = 200
                /\ thr'[t].resp.shape = "transcribe"
                /\ ~thr'[t].resp.success => thr'[t].resp.error = "TranscribeError"
                /\ _model_lock' # t
        /\ thr[t].pc = "done" =>
                /\ ENABLED Finish(t)
                /\ thr'[t] # thr[t] => thr'[t].pc = "idle"
      ]_vars

\* a failed /model/load and a failed transcription have both been answered
C18_Witness ==
    \E t, u \in AllThreads :
        /\ thr[t].pc = "done" /\ thr[t].kind = "load"
        /\ thr[t].resp.status = 500 /\ thr[t].resp.error = "LoadError"
        /\ thr[u].pc = "done" /\ thr[u].kind = "transcribe"
        /\ thr[u].resp.status = 200 /\ ~thr[u].resp.success
        /\ thr[u].resp.error = "TranscribeError"
        /\ _model_lock = 0

\* C19 (specification SpecSeq): a /transcribe request whose body does not
\* decode for its declared content type (malformed JSON, invalid base64,
\* no audio, malformed multipart) is answered with a status of the 400
\* class, and the slot is left as it was.
C19_UndecodableBodyIs400 ==
    \A t \in SeqThreads :
        (thr[t].pc = "done" /\ thr[t].kind = "transcribe" /\ thr[t].req.body # "ok") =>
            thr[t].resp.status \in 400..499

\* C20 (specification SpecSeq): a /transcribe request whose content type is
\* none of the classes handle_transcribe knows is answered with status 400
\* and an error that names the content type; no temporary file is created,
\* get_model is not called and the slot is left as it was.
C20_UnsupportedTypeIs400 ==
    [][\A t \in SeqThreads :
        (/\ thr[t].pc = "idle" /\ thr'[t].kind = "transcribe"
         /\ thr'[t].req.enc \notin {"raw", "json", "multipart"}) =>
            /\ thr'[t].pc = "done"
            /\ thr'[t].resp.status = 400
            /\ thr'[t].resp.error = "Unsupported content type"
            /\ thr'[t].resp.error_arg = thr'[t].req.enc
            /\ thr'[t].temp_path = 0 /\ tmp_files' = tmp_files
            /\ ~thr'[t].loaded
            /\ _model' = _model /\ _model_info' = _model_info
            /\ _model_lock' = _model_lock
      ]_vars

\* a text/plain request has been answered while a model is resident
C20_Witness ==
    \E t \in SeqThreads :
        /\ thr[t].pc = "done" /\ thr[t].kind = "transcribe"
        /\ thr[t].req.enc = "text/plain"
        /\ thr[t].resp.status = 400 /\ thr[t].resp.error_arg = "text/plain"
        /\ _model # NoModel

----------------------------------------------------------------------------
(* Read-only state (specification SpecSeq) *)

\* C21: no request of any kind changes a field of the runtime policy; the
\* GET endpoints also leave the handle, the key, the lock and the temporary
\* files as they are; and /health reports model_loaded true exactly when a
\* handle is resident.
C21_PolicyAndGetAreReadOnly ==
    [][/\ _runtime_policy' = _runtime_policy
       /\ \A t \in SeqThreads :
            (thr[t].pc = "idle" /\ thr'[t].kind \in {"info", "health", "gpu"}) =>
                /\ _model' = _model /\ _model_info' = _model_info
                /\ _model_lock' = _model_lock /\ tmp_files' = tmp_files
                /\ thr'[t].pc = "done" /\ thr'[t].resp.status = 200
                /\ thr'[t].kind = "health" =>
                        thr'[t].resp.loaded = (_model # NoModel)
      ]_vars

\* /health has answered model_loaded false on a server started with
\* lock_model while no model is resident
C21_Witness ==
    \E t \in SeqThreads :
        /\ thr[t].pc = "done" /\ thr[t].kind = "health"
        /\ ~thr[t].resp.loaded /\ _model = NoModel
        /\ _runtime_policy.lock_model

----------------------------------------------------------------------------
(* Devices (specification SpecSeq) *)

C23_NoLoadFailsForMissingDevice ==
    \A t \in SeqThreads :
        ~(thr[t].pc = "done" /\ thr[t].cause = "device")

\* C30: for the SenseVoice engine the device recorded in the key after a
\* successful load is the device the backend model was constructed on, also
\* when the probe inside load_sensevoice_model answers otherwise than the
\* probe of the request handler did.
C30_KeyDeviceIsBuiltDevice ==
    (/\ _model_lock = 0 /\ _model # NoModel
     /\ _model_info.engine = "sensevoice") =>
        _model_info.device = IF StartsWithCuda(_model.built) THEN "cuda" ELSE "cpu"

----------------------------------------------------------------------------
(* Body decoding properties (specification SpecSeq) *)

\* C24: when the client sends no language and lock_language is clear, the
\* language is the policy default language, for raw, multipart and JSON
\* bodies alike.
C24_OmittedLanguageIsPolicyDefault ==
    \A t \in SeqThreads :
        (/\ thr[t].kind = "transcribe" /\ Decode(thr[t].req) = "ok"
         /\ ~_runtime_policy.lock_language
         /\ thr[t].req.language = Missing) =>
            thr[t].language = _runtime_policy.default_language

\* C25: in a multipart body that repeats a field name the first occurrence
\* is the parameter: with the language field sent twice, the request
\* resolves the language of the first.
C25_FirstOccurrenceWins ==
    \A t \in SeqThreads :
        (/\ thr[t].kind = "transcribe" /\ thr[t].req.enc = "multipart"
         /\ thr[t].req.language_again # Missing
         /\ ~_runtime_policy.lock_language) =>
            thr[t].language = thr[t].req.language

----------------------------------------------------------------------------
(* Start-up (specification SpecStart) *)

\* C26: when main has finished and the server begins to take requests, the
\* slot is absent unless a pre-load was configured (--preload-model, or the
\* SenseVoice engine, which is always pre-loaded); a configured pre-load
\* that fails leaves the slot absent as well, one that succeeds leaves the
\* pre-loaded key; and a request that finds the slot absent runs the load.
C26_SlotAbsentUnlessPreloaded ==
    [][\A t \in SeqThreads :
        LET a == thr[t]
            b == thr'[t]
            configured == _runtime_policy.engine = "sensevoice" \/ a.req.model # None
        IN  /\ (a.kind = "preload" /\ a.pc # "done" /\ b.pc = "done") =>
                    /\ ~configured => ~b.loaded
                    /\ ~b.loaded => (_model' = NoModel /\ _model_info' = NullInfo)
                    /\ b.loaded => (_model'.key = b.args /\ _model_info' = b.args)
            /\ (/\ a.kind # "preload" /\ a.pc = "get_model" /\ b.pc # "get_model"
                 /\ _model = NoModel) =>
                    b.pc = "load"
      ]_vars

\* a configured pre-load has failed and main goes on to serve
C26_Witness ==
    \E t \in SeqThreads :
        /\ thr[t].kind = "preload" /\ thr[t].pc = "done"
        /\ thr[t].req.model = "base" /\ thr[t].resp.error = "LoadError"
        /\ _model = NoModel

----------------------------------------------------------------------------
(* Handles in flight (specification Spec) *)

\* C27: the slot carries a generation counter that every successful load
\* increases, so that a request holding a handle can tell that its handle
\* has been superseded.  The slot of the program holds the handle and the six
\* key fields and nothing else, so this reads: whenever a request holds a
\* handle that is no longer the resident one, the slot's fields differ from
\* those the request got its handle with.
C27_SupersededHandleIsDetectable ==
    \A t \in AllThreads :
        (/\ thr[t].pc = "got_model" /\ thr[t].ret # _model
         /\ _model_lock = 0 /\ _model # NoModel) =>
            _model_info # thr[t].ret.key

\* C28 (specification SpecSeq): the handle get_model returns was produced by
\* a backend load performed with exactly the arguments of the call, so the
\* request runs inference on a model of the engine, model, device and compute
\* type it resolved and echoes: the handle's key is the arguments and the
\* model was constructed on the device of the arguments.
C28_HandleIsOfRequestedKey ==
    \A t \in SeqThreads :
        thr[t].pc = "got_model" =>
            /\ thr[t].ret # NoModel
            /\ thr[t].ret.key = thr[t].args
            /\ thr[t].args.device =
                    IF StartsWithCuda(thr[t].ret.built) THEN "cuda" ELSE "cpu"

\* C29 (specification SpecTorn): the five defaults a request reads from
\* _model_info without the lock are the five fields of one value _model_info
\* had while they were read, never some fields of one value and the rest of
\* another.
C29_DefaultsAreOneSnapshot ==
    \A t \in AllThreads :
        (thr[t].kind = "transcribe" /\ thr[t].pc = "get_model") =>
            \E info \in thr[t].seen :
                \A i \in 1..Len(DefaultFields) :
                    thr[t].defaults[DefaultFields[i]] = info[DefaultFields[i]]

\* C31 (specification SpecEnv): a SenseVoice model loaded under a key with
\* cache root r is fetched while HF_HOME and MODELSCOPE_CACHE are r: no
\* request naming another download_root changes the environment during the
\* load.
C31_LoadFetchesUnderItsCacheRoot ==
    \A t \in AllThreads :
        (/\ thr[t].loaded
         /\ thr[t].args.engine = "sensevoice"
         /\ Truthy(thr[t].args.download_root)) =>
            /\ thr[t].fetch_env.HF_HOME = thr[t].args.download_root
            /\ thr[t].fetch_env.MODELSCOPE_CACHE = thr[t].args.download_root

C33_MonitorStoppedOneResult ==
    (cli.pc = "exit" /\ cli.tried) =>
        /\ cli.monitor # "none" => cli.stop_event
        /\ Len(cli.stdout) = 1
        /\ cli.exit_code = 0 <=> cli.stdout[1].success = "true"

====
